---- MODULE Spec2Model ----
(***************************************************************************)
(* Model of the GDP pipeline of src/fed/data.py, driven as src/fed/test.py *)
(* drives it: load_gdp_data, then clean_gdp_data.                          *)
(*                                                                         *)
(* Representation.                                                         *)
(*   - A text (a column name of the CSV) is the sequence of its decimal    *)
(*     digits, so that str(y) and astype(int) are real conversions.        *)
(*   - A CSV cell is a record: empty, a non-numeric text, or a number.     *)
(*   - A float is NaN (the empty tuple) or an exact rational <<n, d>>,     *)
(*     d > 0, in lowest terms.  Money is counted in millions of USD, so    *)
(*     1e9 USD is <<1000, 1>>.  Floating point rounding error is not       *)
(*     modelled.                                                           *)
(*   - gdp_billion is NaN or <<h>>, h the number of hundredths of a        *)
(*     billion (two decimal places).                                       *)
(*   - A DataFrame is the sequence of its rows in positional order; each   *)
(*     row carries its index label idx.                                    *)
(*                                                                         *)
(* Inputs.  The file has the "Country Name" column, start_year <=          *)
(* end_year, country names are strings and the index labels of a table     *)
(* handed to clean_gdp_data are distinct (a RangeIndex).  pandas is        *)
(* modelled by its documented behaviour: melt raises KeyError for a        *)
(* value_vars name that is no column; a sort on two keys is stable;        *)
(* interpolate is linear over equally spaced rows.                         *)
(***************************************************************************)
EXTENDS Integers, Sequences, FiniteSets, TLC

VARIABLES
    exists,      \* Path(filepath).exists()
    source,      \* the CSV behind filepath, after the 4 skipped rows
    countries,   \* argument of load_gdp_data: None or Some(list)
    start_year,  \* argument of load_gdp_data
    end_year,    \* argument of load_gdp_data
    save_path,   \* argument of load_gdp_data: None or Some(path)
    pc,          \* position of the driver: start, loaded, cleaned, failed
    err,         \* the exception that ended the driver, or "none"
    df_long,     \* the table load_gdp_data returned
    fill_method, \* argument of the clean_gdp_data call that was made
    out,         \* the table clean_gdp_data returned
    stdout,      \* the lines printed so far
    files        \* the file system the pipeline writes to: dirs and files

vars == <<exists, source, countries, start_year, end_year, save_path, pc, err,
          df_long, fill_method, out, stdout, files>>

-----------------------------------------------------------------------------
(* Bounds of the model *)

\* most rows of a source file
MaxSrcRows == 2
\* most names in a requested countries list
MaxCountries == 2
\* most rows of a table handed directly to clean_gdp_data
MaxRows == 3

(* Program constants *)

\* default start_year
FirstYear == 2000
\* gdp_usd / 1e9, with money counted in millions
MillionsPerBillion == 1000
\* .round(2)
Decimals == 2

-----------------------------------------------------------------------------
(* Optional values and floats *)

None == <<>>
Some(x) == <<x>>

NaN == <<>>
IsNaN(v) == v = NaN

RECURSIVE GCD(_, _)
GCD(a, b) == IF b = 0 THEN a ELSE GCD(b, a % b)

Abs(n) == IF n < 0 THEN -n ELSE n

\* the rational n/d (d > 0) in lowest terms
Rat(n, d) ==
    LET g == GCD(Abs(n), d)
    IN  IF n = 0 THEN <<0, 1>> ELSE <<n \div g, d \div g>>

-----------------------------------------------------------------------------
(* Texts of digits: str(y) and astype(int) *)

RECURSIVE Str(_)
Str(n) == IF n < 10 THEN <<n>> ELSE Append(Str(n \div 10), n % 10)

RECURSIVE AsInt(_)
AsInt(s) ==
    IF Len(s) = 0 THEN 0
    ELSE 10 * AsInt(SubSeq(s, 1, Len(s) - 1)) + s[Len(s)]

\* [str(y) for y in range(start_year, end_year + 1)]
YearCols(s, e) == [k \in 1..(IF e >= s THEN e - s + 1 ELSE 0) |-> Str(s + k - 1)]

-----------------------------------------------------------------------------
(* CSV cells *)

EmptyCell == [kind |-> "empty"]
TextCell == [kind |-> "text"]
NumCell(v) == [kind |-> "num", v |-> v]

\* pd.read_csv followed by pd.to_numeric(errors="coerce")
ToNumeric(cell) == IF cell.kind = "num" THEN Rat(cell.v, 1) ELSE NaN

-----------------------------------------------------------------------------
(* load_gdp_data *)

\* the default list of countries
DefaultCountries ==
    <<"United States", "United Kingdom", "Brazil", "Japan", "China",
      "Germany", "Switzerland">>

\* Series.isin(countries)
IsIn(name, cs) == \E i \in DOMAIN cs : cs[i] = name

\* a selection that keeps every row of the file
KeepCountries_All(rows, cs) == rows

\* a selection that gives nothing unless every requested name is in the file
KeepCountries_Strict(rows, cs) ==
    IF \A i \in DOMAIN cs : \E k \in DOMAIN rows : rows[k].name = cs[i]
    THEN SelectSeq(rows, LAMBDA r : IsIn(r.name, cs))
    ELSE <<>>

\* df[df["Country Name"].isin(countries)]
KeepCountries(rows, cs) == SelectSeq(rows, LAMBDA r : IsIn(r.name, cs))

HasCol(cols, c) == \E i \in DOMAIN cols : cols[i] = c
ColIndex(cols, c) == CHOOSE i \in DOMAIN cols : cols[i] = c

\* DataFrame.melt(id_vars=["Country Name"], value_vars=year_cols, ...): one
\* block of rows per value column, in the order of value_vars; inside a block
\* the rows keep the order of the frame.  The result has a fresh RangeIndex.
Melt(cols, rows, year_cols) ==
    LET n == Len(rows)
    IN  [k \in 1..(n * Len(year_cols)) |->
            LET j == ((k - 1) \div n) + 1
                i == ((k - 1) % n) + 1
            IN  [idx |-> k - 1,
                 country |-> rows[i].name,
                 year |-> year_cols[j],
                 gdp_usd |-> rows[i].cells[ColIndex(cols, year_cols[j])]]]

\* astype(int) on year, pd.to_numeric(errors="coerce") on gdp_usd
ConvertTypes(tbl) ==
    [k \in DOMAIN tbl |->
        [tbl[k] EXCEPT !.year = AsInt(@), !.gdp_usd = ToNumeric(@)]]

\* DataFrame.to_csv(path, index=False) after parent.mkdir(parents=True,
\* exist_ok=True): the index labels are not written
DropIndex(tbl, fields) ==
    [k \in DOMAIN tbl |-> [f \in fields |-> tbl[k][f]]]

WriteCsv(fs, path, rows) ==
    [dirs |-> fs.dirs \cup {path.parent},
     content |-> [p \in DOMAIN fs.content \cup {path.name} |->
                     IF p = path.name THEN rows ELSE fs.content[p]]]

LongFields == {"country", "year", "gdp_usd"}

\* Steps 5 to 8 of load_gdp_data, from the melt to the return: what it
\* returns, prints and writes.
Reshape(src, cs, df, year_cols, s, e, sp, fs, so) ==
    LET df_l == ConvertTypes(Melt(src.cols, df, year_cols))
        so1 == Append(so, [line |-> "Loaded GDP data", n |-> Len(cs),
                           from |-> s, to |-> e])
    IN  IF sp # None
        THEN [err |-> "none", df |-> df_l,
              stdout |-> Append(so1, [line |-> "Cleaned data saved to",
                                      path |-> sp[1].name]),
              files |-> WriteCsv(fs, sp[1], DropIndex(df_l, LongFields))]
        ELSE [err |-> "none", df |-> df_l, stdout |-> so1, files |-> fs]

\* a loader that clips the requested years to the columns the file has
ReadAndReshape_Clip(src, ctr, s, e, sp, fs, so) ==
    LET cs == IF ctr = None THEN DefaultCountries ELSE ctr[1]
    IN  Reshape(src, cs, KeepCountries(src.rows, cs),
                SelectSeq(YearCols(s, e), LAMBDA c : HasCol(src.cols, c)),
                s, e, sp, fs, so)

\* load_gdp_data once the file is known to exist.  melt raises KeyError when
\* a name of value_vars is no column of the frame, whatever rows it has.
ReadAndReshape(src, ctr, s, e, sp, fs, so) ==
    LET cs == IF ctr = None THEN DefaultCountries ELSE ctr[1]
        df == KeepCountries(src.rows, cs)
        year_cols == YearCols(s, e)
    IN  IF \E k \in DOMAIN year_cols : ~HasCol(src.cols, year_cols[k])
        THEN [err |-> "KeyError", df |-> <<>>, stdout |-> so, files |-> fs]
        ELSE Reshape(src, cs, df, year_cols, s, e, sp, fs, so)

\* a loader without the check of lines 38-40
load_gdp_data_Unchecked(ex, src, ctr, s, e, sp, fs, so) ==
    ReadAndReshape(src, ctr, s, e, sp, fs, so)

\* The whole of load_gdp_data: what it raises or returns, what it prints and
\* what it leaves on the file system.
load_gdp_data(ex, src, ctr, s, e, sp, fs, so) ==
    IF ~ex
    THEN [err |-> "FileNotFoundError", df |-> <<>>, stdout |-> so, files |-> fs]
    ELSE ReadAndReshape(src, ctr, s, e, sp, fs, so)

Load ==
    /\ pc = "start"
    /\ LET r == load_gdp_data(exists, source, countries, start_year, end_year,
                              save_path, files, stdout)
       IN  /\ err' = r.err
           /\ df_long' = r.df
           /\ stdout' = r.stdout
           /\ files' = r.files
           /\ pc' = IF r.err = "none" THEN "loaded" ELSE "failed"
    /\ UNCHANGED <<exists, source, countries, start_year, end_year, save_path,
                   fill_method, out>>

-----------------------------------------------------------------------------
(* clean_gdp_data *)

\* the country names of the model in the order Python compares strings
NameOrder == <<"A", "B", "Japan">>
NameRank(c) == CHOOSE i \in DOMAIN NameOrder : NameOrder[i] = c

\* the order of sort_values(["country", "year"])
KeyLess(a, b) ==
    \/ NameRank(a.country) < NameRank(b.country)
    \/ a.country = b.country /\ a.year < b.year

\* a row put into a sorted table behind every row that is not greater
RECURSIVE InsertSorted(_, _)
InsertSorted(t, row) ==
    IF Len(t) = 0 \/ ~KeyLess(row, t[Len(t)]) THEN Append(t, row)
    ELSE Append(InsertSorted(SubSeq(t, 1, Len(t) - 1), row), t[Len(t)])

\* DataFrame.sort_values(["country", "year"]): a sort on several keys is a
\* lexsort, which is stable, so rows with equal keys keep their order
RECURSIVE sort_values(_)
sort_values(tbl) ==
    IF Len(tbl) = 0 THEN <<>>
    ELSE InsertSorted(sort_values(SubSeq(tbl, 1, Len(tbl) - 1)), tbl[Len(tbl)])

\* Series.ffill(): walk the series forwards carrying the last value seen
RECURSIVE ffill(_)
ffill(s) ==
    IF Len(s) = 0 THEN <<>>
    ELSE LET n == Len(s)
             p == ffill(SubSeq(s, 1, n - 1))
         IN  Append(p, IF IsNaN(s[n]) /\ n > 1 THEN p[n - 1] ELSE s[n])

\* Series.bfill(): the same walk backwards
RECURSIVE bfill(_)
bfill(s) ==
    IF Len(s) = 0 THEN <<>>
    ELSE LET p == bfill(Tail(s))
         IN  <<IF IsNaN(s[1]) /\ Len(s) > 1 THEN p[1] ELSE s[1]>> \o p

\* numpy.interp(x, xp, fp) for xp increasing: the line through the two points
\* around x, and the first or last fp outside of xp
interp(x, xp, fp) ==
    IF x <= xp[1] THEN fp[1]
    ELSE IF x >= xp[Len(xp)] THEN fp[Len(xp)]
    ELSE LET j == CHOOSE j \in 1..(Len(xp) - 1) : xp[j] <= x /\ x < xp[j + 1]
             a == fp[j]
             b == fp[j + 1]
             w == xp[j + 1] - xp[j]
         IN  \* a + (b - a) * (x - xp[j]) / w, on rationals
             Rat(a[1] * b[2] * w + (b[1] * a[2] - a[1] * b[2]) * (x - xp[j]),
                 a[2] * b[2] * w)

\* the members of a set of positions, in increasing order
Ascending(S) ==
    [j \in 1..Cardinality(S) |->
        CHOOSE k \in S : Cardinality({i \in S : i < k}) = j - 1] \o <<>>

\* an interpolation with the default limit_direction ("forward"), which
\* leaves the values before the first valid one missing
interpolate_Forward(s) ==
    LET xp == Ascending({i \in DOMAIN s : ~IsNaN(s[i])})
        fp == [j \in DOMAIN xp |-> s[xp[j]]] \o <<>>
    IN  IF Len(xp) = 0 THEN s
        ELSE [i \in DOMAIN s |->
                 IF IsNaN(s[i]) /\ i > xp[1] THEN interp(i, xp, fp) ELSE s[i]] \o <<>>

\* Series.interpolate(limit_direction="both"): method "linear" takes the
\* values as equally spaced (the positions, not the index) and, with no
\* limit, fills every NaN, those before the first and after the last valid
\* value too; a series with no valid value is returned as it is
interpolate(s) ==
    LET xp == Ascending({i \in DOMAIN s : ~IsNaN(s[i])})
        fp == [j \in DOMAIN xp |-> s[xp[j]]] \o <<>>
    IN  IF Len(xp) = 0 THEN s
        ELSE [i \in DOMAIN s |-> IF IsNaN(s[i]) THEN interp(i, xp, fp) ELSE s[i]] \o <<>>

\* a fill that closes the gap ffill or bfill leaves with the other one
FillSeries_BothWays(fm, s) ==
    IF fm = Some("ffill") THEN bfill(ffill(s))
    ELSE IF fm = Some("bfill") THEN ffill(bfill(s))
    ELSE interpolate(s)

\* the lambda of lines 131-132 and of line 138
FillSeries(fm, s) ==
    IF fm = Some("ffill") THEN ffill(s)
    ELSE IF fm = Some("bfill") THEN bfill(s)
    ELSE interpolate(s)

\* one group of groupby(...)["gdp_usd"].apply(...): the filled series of a
\* country, each value under the index label of its row
ApplyGroup(g, fm) ==
    LET f == FillSeries(fm, [k \in DOMAIN g |-> g[k].gdp_usd] \o <<>>)
    IN  [k \in DOMAIN g |-> [idx |-> g[k].idx, v |-> f[k]]] \o <<>>

\* a fill of the sorted table as one series, without the groupby
GroupByApply_Ungrouped(sorted, fm) == ApplyGroup(sorted, fm)

\* out.sort_values([...]).groupby("country", group_keys=False)["gdp_usd"]
\*    .apply(...) on a sorted table: every country's series is filled on its
\* own and the results are put one after the other
RECURSIVE GroupByApply(_, _)
GroupByApply(sorted, fm) ==
    IF Len(sorted) = 0 THEN <<>>
    ELSE LET c == sorted[1].country
         IN  ApplyGroup(SelectSeq(sorted, LAMBDA r : r.country = c), fm)
                \o GroupByApply(SelectSeq(sorted, LAMBDA r : r.country # c), fm)

\* an assignment of the values by position (of .values), not by label
AssignGdpUsd_Positional(tbl, series) ==
    [k \in DOMAIN tbl |-> [tbl[k] EXCEPT !.gdp_usd = series[k].v]] \o <<>>

\* out["gdp_usd"] = <series>: the assignment aligns the series with the
\* frame on the index labels
AssignGdpUsd(tbl, series) ==
    [k \in DOMAIN tbl |->
        [tbl[k] EXCEPT !.gdp_usd =
            series[CHOOSE j \in DOMAIN series : series[j].idx = tbl[k].idx].v]] \o <<>>

\* a step 1 that falls back to the default fill when fill_method is None
FillMissing_DefaultFill(tbl, fm) ==
    AssignGdpUsd(tbl, GroupByApply(sort_values(tbl), fm))

\* step 1 of clean_gdp_data: the fill, or nothing for any other fill_method
FillMissing(tbl, fm) ==
    IF fm \in {Some("ffill"), Some("bfill"), Some("interpolate")}
    THEN AssignGdpUsd(tbl, GroupByApply(sort_values(tbl), fm))
    ELSE tbl

RECURSIVE Pow10(_)
Pow10(k) == IF k = 0 THEN 1 ELSE 10 * Pow10(k - 1)

\* numpy rounds to the nearest, a tie to the even neighbour: n/m for m > 0
RoundHalfEven(n, m) ==
    LET q == n \div m
        r == n % m
    IN  IF 2 * r < m THEN q
        ELSE IF 2 * r > m THEN q + 1
        ELSE IF q % 2 = 0 THEN q ELSE q + 1

\* a rescale that cuts the third decimal off
ToBillion_Truncate(v) ==
    IF IsNaN(v) THEN NaN
    ELSE <<(v[1] * Pow10(Decimals)) \div (v[2] * MillionsPerBillion)>>

\* (gdp_usd / 1e9).round(2), as a number of hundredths
ToBillion(v) ==
    IF IsNaN(v) THEN NaN
    ELSE <<RoundHalfEven(v[1] * Pow10(Decimals), v[2] * MillionsPerBillion)>>

UnitLabel == "billion USD"

\* steps 2 and 3: the new columns, the projection and the final sort
Rescale(tbl) ==
    sort_values([k \in DOMAIN tbl |->
                    [idx |-> tbl[k].idx,
                     country |-> tbl[k].country,
                     year |-> tbl[k].year,
                     gdp_billion |-> ToBillion(tbl[k].gdp_usd),
                     gdp_unit |-> UnitLabel]])

CleanFields == {"country", "year", "gdp_billion", "gdp_unit"}

\* The whole of clean_gdp_data: what it returns, prints and writes.
clean_gdp_data(df, fm, sp, fs, so) ==
    LET o == Rescale(FillMissing(df, fm))
    IN  IF sp # None
        THEN [df |-> o,
              stdout |-> Append(so, [line |-> "Cleaned data saved to",
                                     path |-> sp[1].name]),
              files |-> WriteCsv(fs, sp[1], DropIndex(o, CleanFields))]
        ELSE [df |-> o, stdout |-> so, files |-> fs]

FillMethods == {Some("interpolate"), Some("ffill"), Some("bfill"), None}

CleanPath == [parent |-> "out", name |-> "data_clean.csv"]

\* the call of clean_gdp_data with a fill_method and one of the save paths
CleanCall(paths) ==
    /\ pc = "loaded"
    /\ \E fm \in FillMethods, sp \in paths :
          LET r == clean_gdp_data(df_long, fm, sp, files, stdout)
          IN  /\ fill_method' = fm
              /\ out' = r.df
              /\ stdout' = r.stdout
              /\ files' = r.files
    /\ pc' = "cleaned"
    /\ UNCHANGED <<exists, source, countries, start_year, end_year, save_path,
                   err, df_long>>

Clean == CleanCall({None, Some(CleanPath)})

\* the call without a save_path
CleanInMemory == CleanCall({None})

-----------------------------------------------------------------------------
(* Inputs *)

\* all sequences over S of length at most n
SeqsUpTo(S, n) == UNION {[1..k -> S] : k \in 0..n}

EmptyFiles == [dirs |-> {"."}, content |-> <<>>]
LongPath == [parent |-> "out", name |-> "data_remove.csv"]

\* a source file with the year columns first..last
Sources(names, cellDom, first, last, maxRows) ==
    LET cols == YearCols(first, last)
    IN  {[cols |-> cols, rows |-> rs] :
            rs \in SeqsUpTo([name : names, cells : [DOMAIN cols -> cellDom]],
                            maxRows)}

NoSource == [cols |-> <<>>, rows |-> <<>>]

\* Files of two year columns holding rows for A and Japan, asked for any list
\* over A and B (B is never in the file) or for the default list, and for
\* any range of years inside three years, the last of which no file has.
Init ==
    /\ exists \in BOOLEAN
    /\ source \in IF exists
                  THEN Sources({"A", "Japan"}, {TextCell, NumCell(1000)},
                               FirstYear, FirstYear + 1, MaxSrcRows)
                  ELSE {NoSource}
    /\ countries \in {None} \cup {Some(l) : l \in SeqsUpTo({"A", "B"}, MaxCountries)}
    /\ start_year \in FirstYear..(FirstYear + 2)
    /\ end_year \in start_year..(FirstYear + 2)
    /\ save_path \in {None, Some(LongPath)}
    /\ pc = "start"
    /\ err = "none"
    /\ df_long = <<>>
    /\ fill_method = None
    /\ out = <<>>
    /\ stdout = <<>>
    /\ files = EmptyFiles

\* The file of the end-to-end scenario: a row for A and a row for B over
\* three years, every cell empty or one of four amounts, loaded whole.
PipeCells == {EmptyCell, NumCell(1000), NumCell(2000), NumCell(3000), NumCell(1236)}

InitPipe ==
    /\ exists = TRUE
    /\ \E a, b \in [1..3 -> PipeCells] :
          source = [cols |-> YearCols(FirstYear, FirstYear + 2),
                    rows |-> <<[name |-> "A", cells |-> a],
                               [name |-> "B", cells |-> b]>>]
    /\ countries = Some(<<"A", "B">>)
    /\ start_year = FirstYear
    /\ end_year = FirstYear + 2
    /\ save_path = None
    /\ pc = "start"
    /\ err = "none"
    /\ df_long = <<>>
    /\ fill_method = None
    /\ out = <<>>
    /\ stdout = <<>>
    /\ files = EmptyFiles

\* a table with a fresh RangeIndex
RangeIndex(rows) ==
    [k \in DOMAIN rows |->
        [idx |-> k - 1, country |-> rows[k].country, year |-> rows[k].year,
         gdp_usd |-> rows[k].gdp_usd]]

\* Any table of at most MaxRows rows handed to clean_gdp_data: rows of two
\* countries and three years in any order, a year twice or not at all.
CleanInputs ==
    {RangeIndex(t) :
        t \in SeqsUpTo([country : {"A", "B"},
                        year : FirstYear..(FirstYear + 2),
                        gdp_usd : {NaN, Rat(1000, 1), Rat(3000, 1)}], MaxRows)}

InitClean ==
    /\ exists = TRUE
    /\ source = NoSource
    /\ countries = None
    /\ start_year = FirstYear
    /\ end_year = FirstYear + 2
    /\ save_path = None
    /\ pc = "loaded"
    /\ err = "none"
    /\ df_long \in CleanInputs
    /\ fill_method = None
    /\ out = <<>>
    /\ stdout = <<>>
    /\ files = EmptyFiles

Next == Load \/ Clean

Spec == Init /\ [][Next]_vars

SpecPipe == InitPipe /\ [][Next]_vars

NextClean == CleanInMemory

SpecClean == InitClean /\ [][NextClean]_vars

-----------------------------------------------------------------------------
(* Claims about load_gdp_data, checked under Spec *)

Loaded == pc \in {"loaded", "cleaned"}

\* the list of countries the call selects with
Requested == IF countries = None THEN DefaultCountries ELSE countries[1]
RequestedSet == {Requested[i] : i \in DOMAIN Requested}
SourceNames == {source.rows[i].name : i \in DOMAIN source.rows}
RequestedYears == start_year..end_year

\* the rows of the source file that carry a requested name
Matching == {i \in DOMAIN source.rows : source.rows[i].name \in RequestedSet}

RowsOf(tbl, c, y) == {k \in DOMAIN tbl : tbl[k].country = c /\ tbl[k].year = y}

\* C1 as stated: after a successful load the (country, year) pairs of the
\* long table are the cross product of the requested list and the years
\* start_year..end_year, one row per pair, len(countries) * (number of years)
\* rows in all, also when a requested country has no row in the source.
C1_CrossProductOfRequested ==
    Loaded =>
        /\ Len(df_long) = Len(Requested) * (end_year - start_year + 1)
        /\ \A c \in RequestedSet, y \in RequestedYears :
              Cardinality(RowsOf(df_long, c, y)) = 1

\* C1 amended: after a successful load (start_year <= end_year) the long
\* table has one row per (source row with a requested name, year of
\* start_year..end_year): its pairs are the cross product of the requested
\* countries that occur in the source and the years, and it has (number of
\* matching source rows) * (number of years) rows.
C1_CrossProductOfMatching ==
    Loaded =>
        /\ Len(df_long) = Cardinality(Matching) * (end_year - start_year + 1)
        /\ {<<df_long[k].country, df_long[k].year>> : k \in DOMAIN df_long}
              = (RequestedSet \cap SourceNames) \X RequestedYears
        /\ \A c \in SourceNames, y \in RequestedYears :
              Cardinality(RowsOf(df_long, c, y))
                 = IF c \in RequestedSet
                   THEN Cardinality({i \in Matching : source.rows[i].name = c})
                   ELSE 0

\* a load of a list that names a country with no row in the source beside
\* one that has rows
C1_Witness ==
    /\ pc = "loaded"
    /\ RequestedSet \ SourceNames # {}
    /\ Len(df_long) > 0
    /\ Len(df_long) < Len(Requested) * (end_year - start_year + 1)

\* the requested list without the names that have no row in the source
PresentOnly == SelectSeq(Requested, LAMBDA c : c \in SourceNames)

AllYearsInSource ==
    \A y \in RequestedYears : \E i \in DOMAIN source.cols : AsInt(source.cols[i]) = y

\* C2: a requested name with no row in the source does not make the load
\* fail, the long table has no row for it, and the rows of the other
\* requested countries are those of a load that did not request it.
C2_AbsentNameDropped ==
    /\ (pc # "start" /\ exists /\ AllYearsInSource) => pc # "failed"
    /\ Loaded =>
          /\ \A k \in DOMAIN df_long : df_long[k].country \in SourceNames
          /\ df_long = load_gdp_data(exists, source, Some(PresentOnly), start_year,
                                     end_year, None, EmptyFiles, <<>>).df

C2_Witness ==
    /\ pc = "loaded"
    /\ countries # None
    /\ RequestedSet \ SourceNames # {}
    /\ PresentOnly # <<>>
    /\ Len(df_long) > 0

\* C3: when the file does not exist the load fails with the not-found error
\* and nothing else happens: no table, no printed line, no file or directory
\* at save_path.
C3_NotFoundFirst ==
    (pc # "start" /\ ~exists) =>
        /\ pc = "failed"
        /\ err = "FileNotFoundError"
        /\ df_long = <<>>
        /\ stdout = <<>>
        /\ files = EmptyFiles

C3_Witness == pc = "failed" /\ ~exists /\ save_path # None

\* C4: when a year of start_year..end_year is no column of the source the
\* load fails with the column-not-found error, returns no rows and writes
\* nothing to save_path, also when the country filter leaves no row.
C4_MissingYearColumn ==
    (pc # "start" /\ exists /\ ~AllYearsInSource) =>
        /\ pc = "failed"
        /\ err = "KeyError"
        /\ df_long = <<>>
        /\ files = EmptyFiles

C4_Witness ==
    /\ pc = "failed"
    /\ err = "KeyError"
    /\ save_path # None
    /\ Len(source.rows) > 0
    /\ Matching = {}

-----------------------------------------------------------------------------
(* Claims about clean_gdp_data, checked under SpecClean *)

Cleaned == pc = "cleaned"

\* the row of the returned table that has the index label of input row k
OutRow(k) == out[CHOOSE r \in DOMAIN out : out[r].idx = df_long[k].idx]

Known(k) == ~IsNaN(df_long[k].gdp_usd)

\* row j stands before row k in the series of their country: an earlier
\* year, or the same year and earlier in the input
Before(j, k) ==
    /\ df_long[j].country = df_long[k].country
    /\ \/ df_long[j].year < df_long[k].year
       \/ df_long[j].year = df_long[k].year /\ j < k

KnownBefore(k) == {j \in DOMAIN df_long : Before(j, k) /\ Known(j)}
KnownAfter(k) == {j \in DOMAIN df_long : Before(k, j) /\ Known(j)}

\* the nearest known rows around k
Prev(k) == CHOOSE j \in KnownBefore(k) : \A i \in KnownBefore(k) : i = j \/ Before(i, j)
Succ(k) == CHOOSE j \in KnownAfter(k) : \A i \in KnownAfter(k) : i = j \/ Before(j, i)

\* the number of steps from row j to row k in the series of their country
Steps(j, k) ==
    Cardinality({i \in DOMAIN df_long : Before(j, i) /\ (i = k \/ Before(i, k))})

\* the value on the line from (0, a) to (w, b) at t
OnLine(a, b, t, w) ==
    Rat(a[1] * b[2] * w + (b[1] * a[2] - a[1] * b[2]) * t, a[2] * b[2] * w)

SameKey(k) ==
    /\ OutRow(k).country = df_long[k].country
    /\ OutRow(k).year = df_long[k].year

\* C5: after the interpolate fill, gdp_billion is missing in a row exactly
\* when every gdp_usd of the row's country was missing in the input.
C5_NoMissingAfterInterpolate ==
    (Cleaned /\ fill_method = Some("interpolate")) =>
        \A r \in DOMAIN out :
            IsNaN(out[r].gdp_billion) <=>
                \A k \in DOMAIN df_long :
                    df_long[k].country = out[r].country => ~Known(k)

C5_Witness ==
    /\ Cleaned
    /\ fill_method = Some("interpolate")
    /\ \E j, k, m \in DOMAIN df_long :
          /\ df_long[j].country = "A" /\ Known(j)
          /\ df_long[k].country = "A" /\ ~Known(k) /\ Before(k, j)
          /\ df_long[m].country = "B" /\ ~Known(m)
    /\ \E r \in DOMAIN out : IsNaN(out[r].gdp_billion)

\* C6: the interpolate fill gives a missing value the value on the line
\* between the nearest known values before and after it in the series of
\* its own country taken in ascending year order (equally spaced rows), the
\* first known value of the country to a leading gap and the last known one
\* to a trailing gap; a known value stays; no other country has a part in
\* it, whatever the order of the rows.
InterpolateExpected(k) ==
    IF Known(k) THEN df_long[k].gdp_usd
    ELSE IF KnownBefore(k) = {} /\ KnownAfter(k) = {} THEN NaN
    ELSE IF KnownBefore(k) = {} THEN df_long[Succ(k)].gdp_usd
    ELSE IF KnownAfter(k) = {} THEN df_long[Prev(k)].gdp_usd
    ELSE OnLine(df_long[Prev(k)].gdp_usd, df_long[Succ(k)].gdp_usd,
                Steps(Prev(k), k), Steps(Prev(k), Succ(k)))

C6_InterpolateWithinCountry ==
    (Cleaned /\ fill_method = Some("interpolate")) =>
        \A k \in DOMAIN df_long :
            /\ SameKey(k)
            /\ OutRow(k).gdp_billion = ToBillion(InterpolateExpected(k))

\* the series [1000, missing, 3000] of A over three consecutive years,
\* filled with 2000 (2.00 billion) in the middle
C6_Witness ==
    /\ Cleaned
    /\ fill_method = Some("interpolate")
    /\ \E i, j, k \in DOMAIN df_long :
          /\ df_long[i] = [idx |-> i - 1, country |-> "A", year |-> FirstYear,
                           gdp_usd |-> Rat(1000, 1)]
          /\ df_long[j] = [idx |-> j - 1, country |-> "A", year |-> FirstYear + 1,
                           gdp_usd |-> NaN]
          /\ df_long[k] = [idx |-> k - 1, country |-> "A", year |-> FirstYear + 2,
                           gdp_usd |-> Rat(3000, 1)]
          /\ OutRow(j).gdp_billion = <<200>>

\* C7: ffill gives a missing value the nearest known value before it in the
\* series of its own country taken in ascending year order, bfill the
\* nearest known value after it; with no such value in its own country the
\* value stays missing.
FillExpected(k) ==
    IF Known(k) THEN df_long[k].gdp_usd
    ELSE IF fill_method = Some("ffill")
         THEN (IF KnownBefore(k) = {} THEN NaN ELSE df_long[Prev(k)].gdp_usd)
         ELSE (IF KnownAfter(k) = {} THEN NaN ELSE df_long[Succ(k)].gdp_usd)

C7_FillWithinCountry ==
    (Cleaned /\ fill_method \in {Some("ffill"), Some("bfill")}) =>
        \A k \in DOMAIN df_long :
            /\ SameKey(k)
            /\ OutRow(k).gdp_billion = ToBillion(FillExpected(k))

\* ffill on the series [missing, 1000, missing] of A gives
\* [missing, 1.00, 1.00]
C7_Witness ==
    /\ Cleaned
    /\ fill_method = Some("ffill")
    /\ \E i, j, k \in DOMAIN df_long :
          /\ df_long[i].country = "A" /\ df_long[i].year = FirstYear /\ ~Known(i)
          /\ df_long[j].country = "A" /\ df_long[j].year = FirstYear + 1
          /\ df_long[j].gdp_usd = Rat(1000, 1)
          /\ df_long[k].country = "A" /\ df_long[k].year = FirstYear + 2 /\ ~Known(k)
          /\ IsNaN(OutRow(i).gdp_billion)
          /\ OutRow(j).gdp_billion = <<100>>
          /\ OutRow(k).gdp_billion = <<100>>

\* b hundredths of a billion is v rounded to two decimals: not further than
\* half a hundredth from it (a tie may go either way)
IsRounded(b, v) ==
    LET m == v[2] * MillionsPerBillion
    IN  2 * Abs(b * m - v[1] * Pow10(Decimals)) <= m

\* C8: with fill_method None the returned table has the rows of the input,
\* none more and none less, and gdp_billion is missing exactly where
\* gdp_usd was missing; a known value is only rescaled.
C8_NoFillKeepsMissing ==
    (Cleaned /\ fill_method = None) =>
        /\ Len(out) = Len(df_long)
        /\ {out[r].idx : r \in DOMAIN out} = {df_long[k].idx : k \in DOMAIN df_long}
        /\ \A k \in DOMAIN df_long :
              /\ SameKey(k)
              /\ IsNaN(OutRow(k).gdp_billion) <=> ~Known(k)
              /\ Known(k) => IsRounded(OutRow(k).gdp_billion[1], df_long[k].gdp_usd)

C8_Witness ==
    /\ Cleaned
    /\ fill_method = None
    /\ \E j, k \in DOMAIN df_long :
          /\ Before(j, k) /\ Known(j) /\ ~Known(k)
          /\ IsNaN(OutRow(k).gdp_billion)
          /\ ~IsNaN(OutRow(j).gdp_billion)

\* the columns of a table, without the index labels
Values(tbl) == DropIndex(tbl, CleanFields)

\* the rows of the input in another order, under a fresh index
Permuted(p) == RangeIndex([k \in DOMAIN df_long |-> df_long[p[k]]])

SameForEveryOrder ==
    \A p \in Permutations(DOMAIN df_long) :
        Values(clean_gdp_data(Permuted(p), fill_method, None, EmptyFiles, <<>>).df)
            = Values(out)

\* the permutation that exchanges i and j
Exchange(i, j) ==
    [k \in DOMAIN df_long |-> IF k = i THEN j ELSE IF k = j THEN i ELSE k]

\* The same table for the input with any two of its rows exchanged.  Every
\* order of the rows is reached by exchanges, and every table of the bound
\* is an input, so this holding of every input is SameForEveryOrder holding
\* of every input.
SameForEveryExchange ==
    \A i, j \in DOMAIN df_long :
        i < j =>
            Values(clean_gdp_data(Permuted(Exchange(i, j)), fill_method, None,
                                  EmptyFiles, <<>>).df) = Values(out)

OutSorted == \A r \in 1..(Len(out) - 1) : ~KeyLess(out[r + 1], out[r])

UniqueKeys ==
    \A j, k \in DOMAIN df_long :
        (df_long[j].country = df_long[k].country /\ df_long[j].year = df_long[k].year)
            => j = k

\* C10 as stated: for every fill method the returned table is the same for
\* every order of the same input rows, and is ordered by country, then by
\* year.
C10_AnyOrderSameTable == Cleaned => (SameForEveryOrder /\ OutSorted)

\* C10 amended: the returned table is ordered by country, then by year, and
\* for an input in which no two rows have the same (country, year) it is
\* the same for every order of the input rows, for every fill method
\* (checked exchange by exchange).
C10_AnyOrderSameTableUniqueKeys ==
    Cleaned => (OutSorted /\ (UniqueKeys => SameForEveryExchange))

\* an unsorted input without a repeated key, of which ffill filled a value
C10_Witness ==
    /\ Cleaned
    /\ fill_method = Some("ffill")
    /\ UniqueKeys
    /\ \E k \in 1..(Len(df_long) - 1) : KeyLess(df_long[k + 1], df_long[k])
    /\ \E k \in DOMAIN df_long : ~Known(k) /\ ~IsNaN(OutRow(k).gdp_billion)

-----------------------------------------------------------------------------
(* The claim about the pipeline, checked under SpecPipe *)

\* the file of the scenario: A = [1e9, missing, 3e9], B = [2e9, 2e9, 2e9]
ScenarioSource ==
    [cols |-> YearCols(FirstYear, FirstYear + 2),
     rows |-> <<[name |-> "A", cells |-> <<NumCell(1000), EmptyCell, NumCell(3000)>>],
                [name |-> "B", cells |-> <<NumCell(2000), NumCell(2000), NumCell(2000)>>]>>]

\* what the scenario is to give: A = [1.0, 2.0, 3.0], B = [2.0, 2.0, 2.0]
ScenarioResult ==
    [r \in 1..6 |->
        [country |-> IF r <= 3 THEN "A" ELSE "B",
         year |-> FirstYear + ((r - 1) % 3),
         gdp_billion |-> IF r <= 3 THEN <<100 * r>> ELSE <<200>>,
         gdp_unit |-> "billion USD"]]

\* C9: load_gdp_data then clean_gdp_data with interpolate gives rows of the
\* columns country, year, gdp_billion, gdp_unit only, gdp_unit "billion USD"
\* in every row, and gdp_billion the filled gdp_usd divided by one billion
\* and rounded to two decimals; the scenario gives A = [1.0, 2.0, 3.0] and
\* B = [2.0, 2.0, 2.0].
C9_PipelineRescales ==
    (Cleaned /\ fill_method = Some("interpolate")) =>
        /\ \A r \in DOMAIN out :
              /\ DOMAIN out[r] = CleanFields \cup {"idx"}
              /\ out[r].gdp_unit = "billion USD"
        /\ \A p \in DOMAIN files.content :
              \A r \in DOMAIN files.content[p] :
                  DOMAIN files.content[p][r] = CleanFields
        /\ \A k \in DOMAIN df_long :
              /\ SameKey(k)
              /\ IsNaN(OutRow(k).gdp_billion) <=> IsNaN(InterpolateExpected(k))
              /\ ~IsNaN(InterpolateExpected(k)) =>
                    IsRounded(OutRow(k).gdp_billion[1], InterpolateExpected(k))
        /\ source = ScenarioSource => Values(out) = ScenarioResult

C9_Witness ==
    /\ Cleaned
    /\ fill_method = Some("interpolate")
    /\ source = ScenarioSource
    /\ Values(out) = ScenarioResult
    /\ CleanPath.name \in DOMAIN files.content

====
